---- MODULE Spec2Model ----
(***************************************************************************)
(* Model of the IBP time-series converter: the two header parsers          *)
(* (try_parse_period of ibpdatafileformat.py, parse_to_ibp_date of         *)
(* ibp_web_app.py) and the two Streamlit scripts that unpivot a table.     *)
(* Strings are sequences of one-character strings; a header label is a     *)
(* record [t, v]: t is the Python type of the label ("str", "int" or       *)
(* "none" for None/NaN) and v its text.                                    *)
(***************************************************************************)
EXTENDS Integers, Sequences, FiniteSets, TLC

\* ------------------------------------------------------------- characters

DigitChars == <<"0", "1", "2", "3", "4", "5", "6", "7", "8", "9">>

LowerChars == <<"a", "b", "c", "d", "e", "f", "g", "h", "i", "j", "k", "l", "m",
                "n", "o", "p", "q", "r", "s", "t", "u", "v", "w", "x", "y", "z">>

UpperChars == <<"A", "B", "C", "D", "E", "F", "G", "H", "I", "J", "K", "L", "M",
                "N", "O", "P", "Q", "R", "S", "T", "U", "V", "W", "X", "Y", "Z">>

Range(f) == {f[i] : i \in DOMAIN f}

DigitSet == Range(DigitChars)

UpperSet == Range(UpperChars)

AlphaSet == Range(LowerChars) \cup Range(UpperChars)

IsDigit(c) == c \in DigitSet

IsAlpha(c) == c \in AlphaSet

DigitVal(c) == (CHOOSE i \in 1..10 : DigitChars[i] = c) - 1

LowerOf(c) ==
  IF c \in UpperSet
  THEN LowerChars[CHOOSE i \in 1..26 : UpperChars[i] = c]
  ELSE c

LowerStr(s) == [i \in 1..Len(s) |-> LowerOf(s[i])]

AllDigits(s) == \A i \in 1..Len(s) : IsDigit(s[i])

RECURSIVE NumVal(_)
NumVal(s) == IF Len(s) = 0 THEN 0
             ELSE 10 * NumVal(SubSeq(s, 1, Len(s) - 1)) + DigitVal(s[Len(s)])

RECURSIVE NatStr(_)
\* str(n) for n >= 0
NatStr(n) == IF n < 10 THEN <<DigitChars[n + 1]>>
             ELSE NatStr(n \div 10) \o <<DigitChars[(n % 10) + 1]>>

RECURSIVE ZeroFill(_, _)
ZeroFill(s, w) == IF Len(s) >= w THEN s ELSE ZeroFill(<<"0">> \o s, w)

\* format(n, "0<w>d"): the sign counts towards the width, wider numbers are kept whole
FormatD(n, w) == IF n < 0 THEN <<"-">> \o ZeroFill(NatStr(0 - n), w - 1)
                 ELSE ZeroFill(NatStr(n), w)

\* ----------------------------------------------------------------- labels

Str(s) == [t |-> "str", v |-> s]

PyInt(s) == [t |-> "int", v |-> s]

PyNone == [t |-> "none", v |-> <<>>]

\* ------------------------------------------------------- proleptic calendar

NaT == [y |-> 0, m |-> 0, d |-> 0]

Date(y, m, d) == [y |-> y, m |-> m, d |-> d]

isna(dt) == dt = NaT

IsLeap(y) == (y % 4 = 0) /\ ((y % 100 # 0) \/ (y % 400 = 0))

DaysInMonth(y, m) ==
  IF m = 2 THEN (IF IsLeap(y) THEN 29 ELSE 28)
  ELSE IF m \in {4, 6, 9, 11} THEN 30 ELSE 31

RECURSIVE DaysBeforeMonth(_, _)
DaysBeforeMonth(y, m) == IF m = 1 THEN 0
                         ELSE DaysBeforeMonth(y, m - 1) + DaysInMonth(y, m - 1)

DaysBeforeYear(y) ==
  LET p == y - 1 IN p * 365 + (p \div 4) - (p \div 100) + (p \div 400)

\* date.toordinal(): 0001-01-01 is day 1
ToOrdinal(dt) == DaysBeforeYear(dt.y) + DaysBeforeMonth(dt.y, dt.m) + dt.d

YearLen(y) == IF IsLeap(y) THEN 366 ELSE 365

\* date.fromordinal()
FromOrdinal(n) ==
  LET y == CHOOSE yy \in ((n \div 366) + 1)..((n \div 365) + 1) :
             DaysBeforeYear(yy) < n /\ n <= DaysBeforeYear(yy) + YearLen(yy)
      r == n - DaysBeforeYear(y)
      m == CHOOSE mm \in 1..12 :
             DaysBeforeMonth(y, mm) < r /\ r <= DaysBeforeMonth(y, mm) + DaysInMonth(y, mm)
  IN Date(y, m, r - DaysBeforeMonth(y, m))

\* date.weekday(): Monday is 0
Weekday(dt) == (ToOrdinal(dt) + 6) % 7

IsValidDate(y, m, d) ==
  /\ y >= 1 /\ y <= 9999
  /\ m \in 1..12
  /\ d >= 1 /\ d <= DaysInMonth(y, m)

\* --------------------------------------------------------- pandas / stdlib

\* Timestamp.strftime('%Y-%m-%d')
strftime(dt) ==
  FormatD(dt.y, 4) \o <<"-">> \o FormatD(dt.m, 2) \o <<"-">> \o FormatD(dt.d, 2)

\* years a nanosecond Timestamp can hold in full
InTimestampBounds(y) == 1678 <= y /\ y <= 2261

IsIsoDateShape(s) ==
  /\ Len(s) = 10
  /\ s[5] = "-" /\ s[8] = "-"
  /\ \A i \in {1, 2, 3, 4, 6, 7, 9, 10} : IsDigit(s[i])

IsIsoYearShape(s) == Len(s) = 4 /\ AllDigits(s)

\* the words dateutil's parserinfo knows (months, weekdays), lower case
KnownWords ==
  { <<"j","a","n">>, <<"f","e","b">>, <<"m","a","r">>, <<"a","p","r">>,
    <<"m","a","y">>, <<"j","u","n">>, <<"j","u","l">>, <<"a","u","g">>,
    <<"s","e","p">>, <<"o","c","t">>, <<"n","o","v">>, <<"d","e","c">>,
    <<"m","o","n">>, <<"t","u","e">>, <<"w","e","d">>, <<"t","h","u">>,
    <<"f","r","i">>, <<"s","a","t">>, <<"s","u","n">> }

\* the maximal runs of letters in s
AlphaRuns(s) ==
  { SubSeq(s, p[1], p[2]) : p \in
      { q \in (1..Len(s)) \X (1..Len(s)) :
          /\ q[1] <= q[2]
          /\ \A k \in q[1]..q[2] : IsAlpha(s[k])
          /\ (q[1] = 1 \/ ~IsAlpha(s[q[1] - 1]))
          /\ (q[2] = Len(s) \/ ~IsAlpha(s[q[2] + 1])) } }

\* the maximal runs of digits in s
DigitRuns(s) ==
  { SubSeq(s, p[1], p[2]) : p \in
      { q \in (1..Len(s)) \X (1..Len(s)) :
          /\ q[1] <= q[2]
          /\ \A k \in q[1]..q[2] : IsDigit(s[k])
          /\ (q[1] = 1 \/ ~IsDigit(s[q[1] - 1]))
          /\ (q[2] = Len(s) \/ ~IsDigit(s[q[2] + 1])) } }

HasUnknownWord(s) == \E w \in AlphaRuns(s) : LowerStr(w) \notin KnownWords

\* a number of five digits reads as a year no datetime can hold
HasYearOutOfRange(s) == \E w \in DigitRuns(s) : Len(w) = 5

\* the strings whose reading is the date library's own convention
LooseStrings ==
  { <<"J","a","n","-","2","6">>,
    <<"J","a","n","-","2","6"," ","0","1">>,
    <<"J","a","n","-","2","6"," ","1">>,
    <<" ","0","1">>,
    <<" ","1">> }

\* what the library may make of "Jan-26" with or without a day appended
MonthYearOutcomes == {NaT, Date(2026, 1, 1), Date(2001, 1, 26)}

\* what the library may make of a lone day number
LoneDayOutcomes == {NaT, Date(2001, 1, 1)}

LibOutcomes(s) == IF Len(s) <= 3 THEN LoneDayOutcomes ELSE MonthYearOutcomes

Libraries == { f \in [LooseStrings -> MonthYearOutcomes \cup LoneDayOutcomes] :
                 \A s \in LooseStrings : f[s] \in LibOutcomes(s) }

\* pd.to_datetime(label, errors='coerce') of one scalar
to_datetime(label, clock, lib) ==
  CASE label.t = "none" -> NaT
    [] label.t = "int" ->
         \* nanoseconds after the epoch: less than a day for up to 13 digits
         IF Len(label.v) <= 13 THEN Date(1970, 1, 1) ELSE NaT
    [] label.t = "str" ->
         LET s == label.v IN
         CASE Len(s) = 0 -> NaT
           [] s \in {<<"n","o","w">>, <<"t","o","d","a","y">>} -> clock
           [] IsIsoDateShape(s) ->
                LET y == NumVal(SubSeq(s, 1, 4))
                    m == NumVal(SubSeq(s, 6, 7))
                    d == NumVal(SubSeq(s, 9, 10))
                IN IF IsValidDate(y, m, d) /\ InTimestampBounds(y)
                   THEN Date(y, m, d) ELSE NaT
           [] IsIsoYearShape(s) ->
                IF InTimestampBounds(NumVal(s)) THEN Date(NumVal(s), 1, 1) ELSE NaT
           [] Len(s) > 0 /\ ~IsIsoDateShape(s) /\ ~IsIsoYearShape(s)
              /\ HasUnknownWord(s) -> NaT
           [] Len(s) > 0 /\ ~IsIsoDateShape(s) /\ ~IsIsoYearShape(s)
              /\ ~HasUnknownWord(s) /\ HasYearOutOfRange(s) -> NaT
           [] s \in LooseStrings -> lib[s]

\* label + suffix: a TypeError unless the label is a str
CanConcat(label) == label.t = "str"

Concat(label, suffix) == Str(label.v \o suffix)

\* the text between leading and trailing blanks
RECURSIVE Strip(_)
Strip(s) == IF Len(s) > 0 /\ s[1] = " " THEN Strip(Tail(s))
            ELSE IF Len(s) > 0 /\ s[Len(s)] = " " THEN Strip(SubSeq(s, 1, Len(s) - 1))
            ELSE s

\* int(label): [ok, val]; ok is FALSE where int() raises
PyIntOf(label) ==
  CASE label.t = "none" -> [ok |-> FALSE, val |-> 0]
    [] label.t = "int" -> [ok |-> TRUE, val |-> NumVal(label.v)]
    [] label.t = "str" ->
         LET s == Strip(label.v)
             signed == Len(s) > 0 /\ s[1] \in {"-", "+"}
             digits == IF signed THEN Tail(s) ELSE s
         IN IF Len(digits) > 0 /\ AllDigits(digits)
            THEN [ok |-> TRUE,
                  val |-> IF signed /\ s[1] = "-" THEN 0 - NumVal(digits) ELSE NumVal(digits)]
            ELSE [ok |-> FALSE, val |-> 0]

\* datetime._isoweek1monday
isoweek1monday(year) ==
  LET firstday == ToOrdinal(Date(year, 1, 1))
      firstweekday == (firstday + 6) % 7
      week1monday == firstday - firstweekday
  IN IF firstweekday > 3 THEN week1monday + 7 ELSE week1monday

\* floor division, as Python's divmod
FloorDiv(a, b) == IF a >= 0 THEN a \div b ELSE 0 - (((0 - a) + b - 1) \div b)

\* the ISO week number beside the calendar year of the date
isocalendar_calendar_year(dt) ==
  LET today == ToOrdinal(dt)
      week == FloorDiv(today - isoweek1monday(dt.y), 7)
  IN IF week < 0
     THEN [year |-> dt.y,
           week |-> FloorDiv(today - isoweek1monday(dt.y - 1), 7) + 1]
     ELSE IF week >= 52 /\ today >= isoweek1monday(dt.y + 1)
     THEN [year |-> dt.y, week |-> 1]
     ELSE [year |-> dt.y, week |-> week + 1]

\* date.isocalendar(): [year, week]
isocalendar(dt) ==
  LET today == ToOrdinal(dt)
      week == FloorDiv(today - isoweek1monday(dt.y), 7)
  IN IF week < 0
     THEN [year |-> dt.y - 1,
           week |-> FloorDiv(today - isoweek1monday(dt.y - 1), 7) + 1]
     ELSE IF week >= 52 /\ today >= isoweek1monday(dt.y + 1)
     THEN [year |-> dt.y + 1, week |-> 1]
     ELSE [year |-> dt.y, week |-> week + 1]

\* re.search(r'week[-_]?(\d{1,2})|wk[-_]?(\d{1,2})', header, re.IGNORECASE) tried at
\* position i with one prefix: the digits captured, <<>> when it does not match there
WeekDigitsAt(s, i, prefix) ==
  LET j == i + Len(prefix)
      k == IF j <= Len(s) /\ s[j] \in {"-", "_"} THEN j + 1 ELSE j
  IN IF j - 1 <= Len(s) /\ LowerStr(SubSeq(s, i, j - 1)) = prefix
        /\ k <= Len(s) /\ IsDigit(s[k])
     THEN IF k + 1 <= Len(s) /\ IsDigit(s[k + 1]) THEN SubSeq(s, k, k + 1)
          ELSE SubSeq(s, k, k)
     ELSE <<>>

\* the first alternative that matches at position i
WeekMatchAt(s, i) ==
  IF WeekDigitsAt(s, i, <<"w","e","e","k">>) # <<>>
  THEN WeekDigitsAt(s, i, <<"w","e","e","k">>)
  ELSE WeekDigitsAt(s, i, <<"w","k">>)

\* week_match.group(1) or week_match.group(2) of the leftmost match; <<>>: no match
week_match(s) ==
  LET hits == {i \in 1..Len(s) : WeekMatchAt(s, i) # <<>>}
  IN IF hits = {} THEN <<>>
     ELSE WeekMatchAt(s, CHOOSE i \in hits : \A j \in hits : i <= j)

\* datetime.strptime(f'{year}-W{week_num}-1', "%Y-W%W-%w"): [ok, dt]; %W takes 0..53,
\* week 1 starts on the year's first Monday, and the day is counted from 1 January
strptime_W(year, week_num) ==
  IF week_num > 53 THEN [ok |-> FALSE, dt |-> NaT]
  ELSE
    LET first_weekday == Weekday(Date(year, 1, 1))
        week_0_length == (7 - first_weekday) % 7
        julian == IF week_num = 0 THEN 1 - first_weekday
                  ELSE 1 + week_0_length + 7 * (week_num - 1)
        yr == IF julian <= 0 THEN year - 1 ELSE year
        jd == IF julian <= 0 THEN julian + YearLen(year - 1) ELSE julian
    IN [ok |-> TRUE, dt |-> FromOrdinal((jd - 1) + ToOrdinal(Date(yr, 1, 1)))]

\* ------------------------------------------------------------ the parsers

Granularity == {"DAY", "MONTH", "YEAR", "WEEK"}

\* what a call gives: the token returned, or raised; dt is the date the call obtained
Returned(tok, dt) == [raised |-> FALSE, tok |-> tok, dt |-> dt]

Raised == [raised |-> TRUE, tok |-> PyNone, dt |-> NaT]

\* the date kept whole, day of the month included
MonthStartKeepsDay(dt) == dt

\* dt.to_period('M').start_time
MonthStart(dt) == Date(dt.y, dt.m, 1)

\* dt.to_period('Y').start_time
YearStart(dt) == Date(dt.y, 1, 1)

\* f"{year:04d}-01-01"
YearToken(year) == FormatD(year, 4) \o <<"-","0","1","-","0","1">>

\* f"{iso.year}-W{iso.week:02d}"
WeekToken(iso) == NatStr(iso.year) \o <<"-","W">> \o FormatD(iso.week, 2)

\* ibpdatafileformat.py: try_parse_period(label, freq)
try_parse_period(label, freq, clock, lib) ==
  LET dt0 == to_datetime(label, clock, lib)
      dt == IF ~isna(dt0) THEN dt0
            ELSE IF CanConcat(label)
                 THEN to_datetime(Concat(label, <<" ","0","1">>), clock, lib)
                 ELSE NaT
  IN CASE freq = "DAY" ->
            IF isna(dt) THEN Returned(label, NaT)
            ELSE Returned(Str(strftime(dt)), dt)
       [] freq = "MONTH" ->
            LET dtm == IF ~isna(dt) THEN dt
                       ELSE IF CanConcat(label)
                            THEN to_datetime(Concat(label, <<" ","1">>), clock, lib)
                            ELSE NaT
            IN IF isna(dtm) THEN Returned(label, NaT)
               ELSE Returned(Str(strftime(MonthStart(dtm))), dtm)
       [] freq = "YEAR" ->
            IF isna(dt)
            THEN IF PyIntOf(label).ok
                 THEN Returned(Str(YearToken(PyIntOf(label).val)), NaT)
                 ELSE Returned(label, NaT)
            ELSE Returned(Str(strftime(YearStart(dt))), dt)
       [] freq = "WEEK" ->
            IF isna(dt) THEN Returned(label, NaT)
            ELSE Returned(Str(WeekToken(isocalendar(dt))), dt)
       [] OTHER -> Returned(label, NaT)

\* ibp_web_app.py: parse_to_ibp_date(header)
parse_to_ibp_date(header, clock, lib) ==
  LET dt == to_datetime(header, clock, lib) IN
  IF ~isna(dt) THEN Returned(Str(strftime(dt)), dt)
  ELSE IF header.t # "str" THEN Raised    \* re.search: expected string
  ELSE LET digits == week_match(header.v) IN
       IF digits # <<>> /\ strptime_W(clock.y, NumVal(digits)).ok
       THEN LET monday == strptime_W(clock.y, NumVal(digits)).dt
            IN Returned(Str(strftime(monday)), monday)
       ELSE Returned(header, NaT)

\* ------------------------------------------------------------------ state

VARIABLES
  now,           \* the date of the machine's clock (datetime.now(), pandas' "today")
  lib,           \* the installed date library's reading of the loose strings
  last,          \* the parser call under observation: [fn, label, freq, res]
  again,         \* a second call with the same arguments: [done, res]
  file,          \* the uploaded file: [loaded, headers, nrows]
  product_map,   \* selectbox 'Product (PRODUCTID)'
  location_map,  \* selectbox 'Location (LOCATIONID)'
  customer_map,  \* selectbox 'Customer (CUSTOMER)'
  custom_dims,   \* st.session_state.custom_dims
  freq,          \* selectbox 'Date Frequency'
  use_all,       \* checkbox 'Use all candidate columns as date columns'
  sel,           \* multiselect of date/value columns
  keyfigure,     \* text_input 'KEYFIGURE'
  view           \* what the last run of the script showed: [msg, csv]

parserVars == <<now, lib, last, again>>

appVars == <<file, product_map, location_map, customer_map, custom_dims,
             freq, use_all, sel, keyfigure, view>>

vars == <<now, lib, last, again, file, product_map, location_map, customer_map,
          custom_dims, freq, use_all, sel, keyfigure, view>>

\* ------------------------------------------------------------ the inputs

\* year boundaries covered by the date headers, from 2024/2025 on
Years == 3

\* days covered on each side of a year boundary
BoundaryDays == 4

TestDates ==
  {Date(2024 + k, 12, 32 - i) : k \in 0..(Years - 1), i \in 1..BoundaryDays}
  \cup {Date(2025 + k, 1, i) : k \in 0..(Years - 1), i \in 1..BoundaryDays}
  \cup {Date(2025, 3, 1), Date(2025, 3, 15), Date(2024, 2, 29)}

DateLabels == {Str(strftime(d)) : d \in TestDates}

WeekLabels ==
  { Str(<<"W","K","0","2"," ","2","0","2","5">>),
    Str(<<"W","e","e","k","-","5","3","-","2","0","2","6">>),
    Str(<<"W","e","e","k","-","5","3","-","2","0","2","5">>),
    Str(<<"w","k","0"," ","2","0","2","5">>),
    Str(<<"w","e","e","k","_","5","4"," ","2","0","2","5">>) }

OtherLabels ==
  { Str(<<"2","0","2","5">>),
    Str(<<"1","2","3","4","5">>),
    Str(<<"J","a","n","-","2","6">>),
    Str(<<"R","e","g","i","o","n">>),
    Str(<<"t","o","d","a","y">>),
    Str(<<>>),
    PyInt(<<"2","0","2","5">>),
    PyNone }

Labels == DateLabels \cup WeekLabels \cup OtherLabels

Clock == {Date(2025, 6, 15), Date(2026, 1, 1), Date(2026, 11, 5)}

NoCall == [fn |-> "none", label |-> PyNone, freq |-> "", res |-> Returned(PyNone, NaT)]

NotAgain == [done |-> FALSE, res |-> Returned(PyNone, NaT)]

NoFile == [status |-> "none", headers |-> <<>>, nrows |-> 0]

NotUsed == <<"N","o","t"," ","u","s","e","d">>

NoCsv == [cols |-> <<>>, rows |-> <<>>]

Blank == [msg |-> "upload", csv |-> NoCsv]

\* the result of calling fn on (label, g) with the clock and library as they are
CallResult(fn, label, g) ==
  IF fn = "try_parse_period" THEN try_parse_period(label, g, now, lib)
  ELSE parse_to_ibp_date(label, now, lib)

InitParser ==
  /\ now \in Clock
  /\ lib \in Libraries
  /\ last = NoCall
  /\ again = NotAgain

InitApp ==
  /\ file = NoFile
  /\ product_map = NotUsed
  /\ location_map = NotUsed
  /\ customer_map = NotUsed
  /\ custom_dims = <<>>
  /\ freq = "MONTH"
  /\ use_all = TRUE
  /\ sel = <<>>
  /\ keyfigure = <<"K","F">>
  /\ view = Blank

Init == InitParser /\ InitApp

\* a caller applies try_parse_period to one header
CallTryParsePeriod ==
  /\ last.fn = "none"
  /\ \E label \in Labels, g \in Granularity :
       last' = [fn |-> "try_parse_period", label |-> label, freq |-> g,
                res |-> try_parse_period(label, g, now, lib)]
  /\ again' = NotAgain
  /\ UNCHANGED <<now, lib>>
  /\ UNCHANGED appVars

\* a caller applies parse_to_ibp_date to one header
CallParseToIbpDate ==
  /\ last.fn = "none"
  /\ \E header \in Labels :
       last' = [fn |-> "parse_to_ibp_date", label |-> header, freq |-> "",
                res |-> parse_to_ibp_date(header, now, lib)]
  /\ again' = NotAgain
  /\ UNCHANGED <<now, lib>>
  /\ UNCHANGED appVars

\* the same function is called once more with the same header and granularity
CallAgain ==
  /\ last.fn # "none"
  /\ ~again.done
  /\ again' = [done |-> TRUE, res |-> CallResult(last.fn, last.label, last.freq)]
  /\ UNCHANGED <<now, lib, last>>
  /\ UNCHANGED appVars

\* the caller drops the token
Forget ==
  /\ last.fn # "none"
  /\ last' = NoCall
  /\ again' = NotAgain
  /\ UNCHANGED <<now, lib>>
  /\ UNCHANGED appVars

\* time passes
Tick ==
  /\ \E d \in Clock : ToOrdinal(d) > ToOrdinal(now) /\ now' = d
  /\ UNCHANGED <<lib, last, again>>
  /\ UNCHANGED appVars

Next ==
  \/ CallTryParsePeriod
  \/ CallParseToIbpDate
  \/ CallAgain
  \/ Forget
  \/ Tick

Spec == Init /\ [][Next]_vars

\* ------------------------------------------------- claims about the parsers

\* the calls a state shows: the call under observation and its repetition
Observed ==
  (IF last.fn = "none" THEN {} ELSE {last})
  \cup (IF again.done
        THEN {[fn |-> last.fn, label |-> last.label, freq |-> last.freq, res |-> again.res]}
        ELSE {})

\* a date string YYYY-MM-DD of a day that exists
IsDateString(s) ==
  /\ IsIsoDateShape(s)
  /\ IsValidDate(NumVal(SubSeq(s, 1, 4)), NumVal(SubSeq(s, 6, 7)), NumVal(SubSeq(s, 9, 10)))

\* the call took a date, or a year, from the label
DateObtained(c) ==
  \/ ~isna(c.res.dt)
  \/ c.fn = "try_parse_period" /\ c.freq = "YEAR" /\ PyIntOf(c.label).ok

\* C1: every call of try_parse_period / parse_to_ibp_date returns one token and never
\* raises, whatever the label; where no date was obtained the token is the label itself
C1_ParserTotal ==
  \A c \in Observed :
    /\ ~c.res.raised
    /\ (~DateObtained(c) => c.res.tok = c.label)

\* C2: for DAY, MONTH and YEAR every token of try_parse_period that is not the label
\* passed through is a valid calendar date string YYYY-MM-DD
C2_TokenIsCalendarDate ==
  \A c \in Observed :
    (/\ c.fn = "try_parse_period"
     /\ c.freq \in {"DAY", "MONTH", "YEAR"}
     /\ ~c.res.raised
     /\ c.res.tok # c.label)
    => (c.res.tok.t = "str" /\ IsDateString(c.res.tok.v))

\* the readings of s under the week pattern of the specification:
\* [wk|week]? [sep]? <1-2 digit week> [sep]? <4-digit year beginning with 20>
SpecWeekParses(s) ==
  { [week |-> NumVal(SubSeq(s, q[1] + q[2] + 1, q[1] + q[2] + q[3])),
     year |-> NumVal(SubSeq(s, Len(s) - 3, Len(s)))] :
    q \in { r \in {0, 2, 4} \X {0, 1} \X {1, 2} \X {0, 1} :
            /\ r[1] + r[2] + r[3] + r[4] + 4 = Len(s)
            /\ LowerStr(SubSeq(s, 1, r[1])) \in {<<>>, <<"w","k">>, <<"w","e","e","k">>}
            /\ (r[2] = 1 => s[r[1] + 1] \in {" ", "-", "_"})
            /\ AllDigits(SubSeq(s, r[1] + r[2] + 1, r[1] + r[2] + r[3]))
            /\ (r[4] = 1 => s[r[1] + r[2] + r[3] + 1] \in {" ", "-", "_"})
            /\ AllDigits(SubSeq(s, Len(s) - 3, Len(s)))
            /\ SubSeq(s, Len(s) - 3, Len(s) - 2) = <<"2","0">> } }

\* ISO 8601: a year has 53 weeks when it begins or ends on a Thursday
WeeksInIsoYear(y) ==
  IF Weekday(Date(y, 1, 1)) = 3 \/ Weekday(Date(y, 12, 31)) = 3 THEN 53 ELSE 52

\* ISO 8601: week 1 is the week of 4 January
IsoWeekMonday(y, w) ==
  FromOrdinal(ToOrdinal(Date(y, 1, 4)) - Weekday(Date(y, 1, 4)) + 7 * (w - 1))

IsValidIsoWeek(p) == 1 <= p.week /\ p.week <= WeeksInIsoYear(p.year)

\* C3: a week-pattern header the generic parser does not recognise gives, for WEEK, the
\* ISO week token of the week and year written in it, and for DAY the Monday of that week
C3_WeekHeaderIsoWeek ==
  \A c \in Observed :
    c.label.t = "str" =>
      \A p \in SpecWeekParses(c.label.v) :
        (IsValidIsoWeek(p) /\ isna(to_datetime(c.label, now, lib))) =>
          /\ ~c.res.raised
          /\ (c.fn = "try_parse_period" /\ c.freq = "WEEK"
                => c.res.tok = Str(NatStr(p.year) \o <<"-","W">> \o FormatD(p.week, 2)))
          /\ ((c.fn = "try_parse_period" /\ c.freq = "DAY") \/ c.fn = "parse_to_ibp_date"
                => c.res.tok = Str(strftime(IsoWeekMonday(p.year, p.week))))

\* C4: a week-pattern header whose week does not exist in its year (53 in a year of 52
\* weeks, or a number outside 1..53) comes back as the label itself
C4_InvalidWeekPassthrough ==
  \A c \in Observed :
    c.label.t = "str" =>
      \A p \in SpecWeekParses(c.label.v) :
        ~IsValidIsoWeek(p) => (~c.res.raised /\ c.res.tok = c.label)

\* C5: two calls with the same header and granularity give the same token, whatever
\* the date of the call
C5_Deterministic ==
  again.done => again.res = last.res

\* C8: for MONTH, a token made from a date is the first day of that date's month
C8_MonthTokenFirstDay ==
  \A c \in Observed :
    (c.fn = "try_parse_period" /\ c.freq = "MONTH" /\ ~isna(c.res.dt)) =>
      /\ ~c.res.raised
      /\ c.res.tok.t = "str"
      /\ IsIsoDateShape(c.res.tok.v)
      /\ NumVal(SubSeq(c.res.tok.v, 1, 4)) = c.res.dt.y
      /\ NumVal(SubSeq(c.res.tok.v, 6, 7)) = c.res.dt.m
      /\ SubSeq(c.res.tok.v, 9, 10) = <<"0","1">>

\* a MONTH call on a header dated after the first of its month has answered
C8_Witness ==
  \E c \in Observed :
    /\ c.fn = "try_parse_period" /\ c.freq = "MONTH"
    /\ c.res.dt = Date(2025, 3, 15)
    /\ c.res.tok = Str(<<"2","0","2","5","-","0","3","-","0","1">>)

\* ISO 8601: a day belongs to the week, and the week-numbering year, of its Thursday
ThursdayOf(dt) == FromOrdinal(ToOrdinal(dt) - Weekday(dt) + 3)

IsoYearOf(dt) == ThursdayOf(dt).y

IsoWeekOf(dt) ==
  ((ToOrdinal(ThursdayOf(dt)) - ToOrdinal(Date(ThursdayOf(dt).y, 1, 1))) \div 7) + 1

\* C9: for WEEK, a token made from a date d is YYYY-Www with ww the ISO week of d (1..53)
\* and YYYY its ISO week-numbering year
C9_WeekTokenIso ==
  \A c \in Observed :
    (c.fn = "try_parse_period" /\ c.freq = "WEEK" /\ ~isna(c.res.dt)) =>
      LET t == c.res.tok.v IN
      /\ ~c.res.raised
      /\ c.res.tok.t = "str"
      /\ Len(t) = 8
      /\ SubSeq(t, 5, 6) = <<"-","W">>
      /\ AllDigits(SubSeq(t, 1, 4)) /\ AllDigits(SubSeq(t, 7, 8))
      /\ NumVal(SubSeq(t, 1, 4)) = IsoYearOf(c.res.dt)
      /\ NumVal(SubSeq(t, 7, 8)) = IsoWeekOf(c.res.dt)
      /\ NumVal(SubSeq(t, 7, 8)) \in 1..53

\* a WEEK call on 2027-01-01, a day of the last week of 2026, has answered 2026-W53
C9_Witness ==
  \E c \in Observed :
    /\ c.fn = "try_parse_period" /\ c.freq = "WEEK"
    /\ c.res.dt = Date(2027, 1, 1)
    /\ c.res.tok = Str(<<"2","0","2","6","-","W","5","3">>)

\* ------------------------------------------ ibpdatafileformat.py, the script

\* rows of an uploaded table
NumRows == 2

\* custom dimensions the session may hold
MaxCustomDims == 1

PRODUCTID == <<"P","R","O","D","U","C","T","I","D">>

LOCATIONID == <<"L","O","C","A","T","I","O","N","I","D">>

CUSTOMER == <<"C","U","S","T","O","M","E","R">>

KEYFIGURE == <<"K","E","Y","F","I","G","U","R","E">>

PERIODID == <<"P","E","R","I","O","D","I","D">>

VALUE == <<"V","A","L","U","E">>

CONST_ROWID == <<"_","C","O","N","S","T","_","R","O","W","I","D">>

\* a CSV file: every header is a str
CsvFile ==
  [status |-> "loaded",
   headers |-> << Str(<<"P","r","o","d","u","c","t">>),
                  Str(<<"2","0","2","5","-","0","3","-","0","1">>),
                  Str(<<"2","0","2","5","-","0","3","-","1","5">>) >>,
   nrows |-> NumRows]

\* an Excel sheet whose year headers are numbers: read_excel keeps them as int
ExcelFile ==
  [status |-> "loaded",
   headers |-> << Str(<<"P","r","o","d","u","c","t">>),
                  PyInt(<<"2","0","2","5">>),
                  PyInt(<<"2","0","2","6">>) >>,
   nrows |-> NumRows]

\* a file pandas cannot read
BrokenFile == [status |-> "failed", headers |-> <<>>, nrows |-> 0]

Files == {CsvFile, ExcelFile, BrokenFile}

\* what the user may type as a custom dimension name
CustomNameInputs == { <<>>, <<" ">>, <<"R","E","G","I","O","N">>, PRODUCTID }

KeyfigureInputs == { <<"K","F">>, <<"F","C","S","T">> }

SeqRange(q) == {q[i] : i \in 1..Len(q)}

IsDistinct(q) == \A i, j \in 1..Len(q) : q[i] = q[j] => i = j

\* cols = list(df.columns.astype(str))
ColsOf(f) == [i \in 1..Len(f.headers) |-> f.headers[i].v]

\* mapped_cols: the (output name, input column) pairs, core dimensions first
MappedCols(pm, lm, cm, cds) ==
  (IF pm # NotUsed THEN <<[name |-> PRODUCTID, col |-> pm]>> ELSE <<>>)
  \o (IF lm # NotUsed THEN <<[name |-> LOCATIONID, col |-> lm]>> ELSE <<>>)
  \o (IF cm # NotUsed THEN <<[name |-> CUSTOMER, col |-> cm]>> ELSE <<>>)
  \o cds

MappedInputCols(mc) == [i \in 1..Len(mc) |-> mc[i].col]

MappedOutputNames(mc) == [i \in 1..Len(mc) |-> mc[i].name]

\* candidate_date_cols = [c for c in cols if c not in mapped_input_cols]
CandidateDateCols(cols, mic) ==
  LET NotMapped(c) == c \notin SeqRange(mic) IN SelectSeq(cols, NotMapped)

\* default=candidate_date_cols[:5]
DefaultSel(cand) == SubSeq(cand, 1, IF Len(cand) < 5 THEN Len(cand) ELSE 5)

\* date_cols: every candidate, or the multiselect's value
DateCols(cand, all, chosen) == IF all THEN cand ELSE chosen

mapped_cols == MappedCols(product_map, location_map, customer_map, custom_dims)

mapped_input_cols == MappedInputCols(mapped_cols)

candidate_date_cols == CandidateDateCols(ColsOf(file), mapped_input_cols)

date_cols == DateCols(candidate_date_cols, use_all, sel)

\* the sequences without repetition over the elements of q
Arrangements(q) ==
  {a \in UNION {[1..n -> SeqRange(q)] : n \in 0..Len(q)} : IsDistinct(a)}

\* the page after a run that reaches the Generate button without a click on it:
\* with no date column the run stops at the error; nothing is generated
Rendered(dc) ==
  IF Len(dc) = 0 THEN [msg |-> "no_date_cols", csv |-> NoCsv]
  ELSE [msg |-> "ready", csv |-> NoCsv]

\* a rerun after the widgets took the values pm, lm, cm, cds, g, all, chosen, kf. The
\* multiselect is a new widget, at its default, when its options changed, and it is
\* not on the page while the checkbox is ticked; a run that stops before the
\* keyfigure input drops what was typed there
Rerun(pm, lm, cm, cds, g, all, chosen, kf) ==
  LET cand == CandidateDateCols(ColsOf(file), MappedInputCols(MappedCols(pm, lm, cm, cds)))
      chosen1 == IF all THEN <<>>
                 ELSE IF cand # candidate_date_cols THEN DefaultSel(cand)
                 ELSE chosen
      dc == DateCols(cand, all, chosen1)
  IN /\ product_map' = pm
     /\ location_map' = lm
     /\ customer_map' = cm
     /\ custom_dims' = cds
     /\ freq' = g
     /\ use_all' = all
     /\ sel' = chosen1
     /\ keyfigure' = (IF Len(dc) = 0 THEN <<"K","F">> ELSE kf)
     /\ view' = Rendered(dc)
     /\ UNCHANGED file
     /\ UNCHANGED parserVars

\* st.file_uploader and read_input: a file is uploaded and the script runs
Upload ==
  /\ file.status # "loaded"
  /\ \E f \in Files :
       /\ file' = f
       /\ view' = IF f.status = "failed" THEN [msg |-> "read_failed", csv |-> NoCsv]
                  ELSE Rendered(ColsOf(f))
  /\ UNCHANGED <<product_map, location_map, customer_map, custom_dims,
                 freq, use_all, sel, keyfigure>>
  /\ UNCHANGED parserVars

SelectProduct ==
  /\ file.status = "loaded"
  /\ \E c \in {NotUsed} \cup SeqRange(ColsOf(file)) :
       /\ c # product_map
       /\ Rerun(c, location_map, customer_map, custom_dims, freq, use_all, sel, keyfigure)

SelectLocation ==
  /\ file.status = "loaded"
  /\ \E c \in {NotUsed} \cup SeqRange(ColsOf(file)) :
       /\ c # location_map
       /\ Rerun(product_map, c, customer_map, custom_dims, freq, use_all, sel, keyfigure)

SelectCustomer ==
  /\ file.status = "loaded"
  /\ \E c \in {NotUsed} \cup SeqRange(ColsOf(file)) :
       /\ c # customer_map
       /\ Rerun(product_map, location_map, c, custom_dims, freq, use_all, sel, keyfigure)

\* the form 'add_custom': a name that is blank after strip() adds nothing
AddCustomDimension ==
  /\ file.status = "loaded"
  /\ Len(custom_dims) < MaxCustomDims
  /\ \E cd_name \in CustomNameInputs, cd_col \in SeqRange(ColsOf(file)) :
       Rerun(product_map, location_map, customer_map,
             IF Strip(cd_name) # <<>>
             THEN Append(custom_dims, [name |-> Strip(cd_name), col |-> cd_col])
             ELSE custom_dims,
             freq, use_all, sel, keyfigure)

\* the button 'Clear custom dimensions', on the page while there are some
ClearCustomDimensions ==
  /\ file.status = "loaded"
  /\ custom_dims # <<>>
  /\ Rerun(product_map, location_map, customer_map, <<>>, freq, use_all, sel, keyfigure)

SelectFrequency ==
  /\ file.status = "loaded"
  /\ \E g \in Granularity :
       /\ g # freq
       /\ Rerun(product_map, location_map, customer_map, custom_dims, g, use_all, sel, keyfigure)

ToggleUseAll ==
  /\ file.status = "loaded"
  /\ Rerun(product_map, location_map, customer_map, custom_dims, freq, ~use_all,
           DefaultSel(candidate_date_cols), keyfigure)

SelectDateCols ==
  /\ file.status = "loaded"
  /\ ~use_all
  /\ \E chosen \in Arrangements(candidate_date_cols) :
       /\ chosen # sel
       /\ Rerun(product_map, location_map, customer_map, custom_dims, freq, use_all,
                chosen, keyfigure)

SetKeyfigure ==
  /\ file.status = "loaded"
  /\ Len(date_cols) > 0
  /\ \E kf \in KeyfigureInputs :
       /\ kf # keyfigure
       /\ Rerun(product_map, location_map, customer_map, custom_dims, freq, use_all, sel, kf)

\* ------------------------------------------------- the Generate IBP CSV run

\* whether the name is a column label of df: df keeps the labels read_excel gave, so a
\* name of cols matches only a str label; the placeholder column is there once added
HasColumn(f, name, placeholder) ==
  \/ \E i \in 1..Len(f.headers) : f.headers[i] = Str(name)
  \/ placeholder /\ name = CONST_ROWID

\* where a column of out_df takes its values from
FromCol(c) == [k |-> "col", c |-> c]

FromPeriod == [k |-> "period", c |-> <<>>]

FromKeyfigure == [k |-> "keyfigure", c |-> <<>>]

FromValue == [k |-> "value", c |-> <<>>]

\* out_df[name] = ...: an existing column is overwritten in place, a new one appended
Assign(out, name, src) ==
  IF \E i \in 1..Len(out) : out[i].name = name
  THEN [i \in 1..Len(out) |-> IF out[i].name = name THEN [name |-> name, src |-> src]
                                ELSE out[i]]
  ELSE Append(out, [name |-> name, src |-> src])

\* for out_name, in_col in mapped_cols: out_df[out_name] = melted[in_col]
RECURSIVE AssignMapped(_, _)
AssignMapped(out, mc) ==
  IF Len(mc) = 0 THEN out
  ELSE AssignMapped(Assign(out, mc[1].name, FromCol(mc[1].col)), Tail(mc))

\* the cells of the output
InCell(r, c) == [k |-> "cell", r |-> r, c |-> c, tok |-> PyNone]

TokCell(tok) == [k |-> "token", r |-> 0, c |-> <<>>, tok |-> tok]

TextCell(text) == [k |-> "text", r |-> 0, c |-> text, tok |-> PyNone]

\* the value a column of out_df holds on the melted row of input row r and date column dc
CellOf(src, r, dc) ==
  CASE src.k = "col" -> InCell(r, src.c)
    [] src.k = "period" -> TokCell(try_parse_period(Str(dc), freq, now, lib).tok)
    [] src.k = "keyfigure" -> TextCell(keyfigure)
    [] src.k = "value" -> InCell(r, dc)

\* out_df[final_cols]: each name selects the column of that name
SourceOf(out, name) == out[CHOOSE i \in 1..Len(out) : out[i].name = name].src

\* df.melt: one row per (date column, input row), date columns outermost
MeltedRow(i, dc, nrows) ==
  [r |-> ((i - 1) % nrows) + 1, dc |-> dc[((i - 1) \div nrows) + 1]]

FinalTable(out, final_cols, dc, nrows) ==
  [cols |-> final_cols,
   rows |-> [i \in 1..(nrows * Len(dc)) |->
               [p \in 1..Len(final_cols) |->
                  CellOf(SourceOf(out, final_cols[p]),
                         MeltedRow(i, dc, nrows).r, MeltedRow(i, dc, nrows).dc)]]]

GenFailed == [msg |-> "gen_failed", csv |-> NoCsv]

\* the button 'Generate IBP CSV'
Generate ==
  /\ file.status = "loaded"
  /\ Len(date_cols) > 0
  /\ LET placeholder == Len(mapped_input_cols) = 0
         id_vars_input == IF placeholder THEN <<CONST_ROWID>> ELSE mapped_input_cols
         missing == \E n \in SeqRange(id_vars_input \o date_cols) :
                      ~HasColumn(file, n, placeholder)
         out_dims == AssignMapped(<<>>, mapped_cols)
         out_period == Assign(out_dims, PERIODID, FromPeriod)
         insert_fails == \E i \in 1..Len(out_period) : out_period[i].name = KEYFIGURE
         out_df == Assign(<<[name |-> KEYFIGURE, src |-> FromKeyfigure]>> \o out_period,
                          VALUE, FromValue)
         final_cols == <<KEYFIGURE>> \o MappedOutputNames(mapped_cols) \o <<PERIODID, VALUE>>
     IN IF missing \/ insert_fails
        THEN view' = GenFailed     \* melt's KeyError, insert's ValueError
        ELSE \* melt with a repeated id column, and st.dataframe of a table with a
             \* repeated column name, raise or not with the installed versions
             \E melt_ok \in (IF IsDistinct(id_vars_input) THEN {TRUE} ELSE BOOLEAN),
                show_ok \in (IF IsDistinct(final_cols) THEN {TRUE} ELSE BOOLEAN) :
               view' = IF melt_ok /\ show_ok
                       THEN [msg |-> "generated",
                             csv |-> FinalTable(out_df, final_cols, date_cols, file.nrows)]
                       ELSE GenFailed
  /\ UNCHANGED <<file, product_map, location_map, customer_map, custom_dims,
                 freq, use_all, sel, keyfigure>>
  /\ UNCHANGED parserVars

InitFmt ==
  /\ now = Date(2026, 11, 5)
  /\ lib = [s \in LooseStrings |-> NaT]
  /\ last = NoCall
  /\ again = NotAgain
  /\ InitApp

NextFmt ==
  \/ Upload
  \/ SelectProduct
  \/ SelectLocation
  \/ SelectCustomer
  \/ AddCustomDimension
  \/ ClearCustomDimensions
  \/ SelectFrequency
  \/ ToggleUseAll
  \/ SelectDateCols
  \/ SetKeyfigure
  \/ Generate

SpecFmt == InitFmt /\ [][NextFmt]_vars

\* ------------------------------------------------ claims about the script

\* the Generate button was the last thing clicked
Generated == view.msg \in {"generated", "gen_failed"}

\* the token try_parse_period gives for a date column under the chosen frequency
PeriodOf(c) == try_parse_period(Str(c), freq, now, lib).tok

\* C6: Generate gives a long table with the columns KEYFIGURE, the dimensions in
\* selection order, PERIODID, VALUE, and one row per (input row, date column) with that
\* row's dimension values, the column's token, the cell's value and the keyfigure
C6_GenerateLongTable ==
  Generated =>
    /\ view.msg = "generated"
    /\ view.csv.cols = <<KEYFIGURE>> \o MappedOutputNames(mapped_cols) \o <<PERIODID, VALUE>>
    /\ Len(view.csv.rows) = file.nrows * Len(date_cols)
    /\ \A r \in 1..file.nrows, j \in 1..Len(date_cols) :
         \E i \in 1..Len(view.csv.rows) :
           LET row == view.csv.rows[i]
               n == Len(mapped_cols)
           IN /\ Len(row) = n + 3
              /\ row[1] = TextCell(keyfigure)
              /\ \A d \in 1..n : row[1 + d] = InCell(r, mapped_cols[d].col)
              /\ row[n + 2] = TokCell(PeriodOf(date_cols[j]))
              /\ row[n + 3] = InCell(r, date_cols[j])

\* two selected date columns come to the same PERIODID
PeriodCollision ==
  \E i, j \in 1..Len(date_cols) : i # j /\ PeriodOf(date_cols[i]) = PeriodOf(date_cols[j])

\* two columns of the output come to the same name
NameCollision ==
  ~IsDistinct(<<KEYFIGURE>> \o MappedOutputNames(mapped_cols) \o <<PERIODID, VALUE>>)

ErrorShown == view.msg \in {"read_failed", "no_date_cols", "gen_failed"}

\* C7: a file that cannot be read, an empty selection of date columns and a collision
\* of PERIODIDs or of output names each end in an error message and no CSV; a table
\* with repeated columns is never given out
C7_FailuresReported ==
  /\ file.status = "failed" => view.msg = "read_failed"
  /\ (file.status = "loaded" /\ Len(date_cols) = 0) => view.msg = "no_date_cols"
  /\ (Generated /\ (PeriodCollision \/ NameCollision)) => view.msg = "gen_failed"
  /\ ErrorShown => view.csv = NoCsv
  /\ IsDistinct(view.csv.cols)

\* C10: at Generate no input column is both a mapped dimension and a date column, and
\* with no dimension mapped Generate succeeds with exactly KEYFIGURE, PERIODID, VALUE
C10_PartitionAndPlaceholder ==
  Generated =>
    /\ SeqRange(mapped_input_cols) \cap SeqRange(date_cols) = {}
    /\ CONST_ROWID \notin SeqRange(view.csv.cols)
    /\ Len(mapped_cols) = 0 =>
         (view.msg = "generated" /\ view.csv.cols = <<KEYFIGURE, PERIODID, VALUE>>)

====
